---- MODULE Spec2Model ----
(***************************************************************************)
(* Woodstock Film Festival calendar generator: the identity and merge      *)
(* engine (_register_event, _merge_event_records), the feed writer         *)
(* (generate_ics_calendar) and the run driver (scrape_all_events,          *)
(* run_scraping_job) of src/make_calendar.py, and the run driver of        *)
(* src/enhanced_make_calendar.py.                                          *)
(*                                                                         *)
(* Strings are sequences of one-character strings, so that strip, lower,   *)
(* startswith, len and the whitespace collapse are computed, not assumed.  *)
(***************************************************************************)
EXTENDS Integers, Sequences, FiniteSets, TLC

VARIABLES
    event_registry,       \* self.event_registry: identity key -> record
    processed_event_ids,  \* self.processed_event_ids
    last,                 \* what the last _register_event call returned
    registered,           \* history: the candidates handed to _register_event
    calls,                \* history: number of _register_event calls
    registry_rev,         \* a second scraper's registry (same candidates, other order)
    candA, candB,         \* the two candidates of the two-candidate scenarios
    pairPc,               \* position in the two-candidate scenario
    site,                 \* the cards each venue page shows
    pc,                   \* position in run_scraping_job
    runs,                 \* number of runs started
    now,                  \* datetime.now(), one tick per run
    feed,                 \* the file at OUTPUT_PATH
    result,               \* what the last run_scraping_job returned
    events_out,           \* the list scrape_all_events returned (references into the registry)
    handed,               \* history: the records handed to generate_ics_calendar
    written,              \* history: the records the file at OUTPUT_PATH was written from
    prev_handed,          \* history: the records prev_feed was written from
    prev_feed,            \* history: the file the last finished run found
    page_modes,           \* history: what happened to each page in the last run
    obs,                  \* the raw observation (card or text-model chunk) last processed
    nobs,                 \* number of raw observations processed
    enh_site,             \* enhanced scraper: what each venue page shows, static and rendered
    enh_ids,              \* enhanced scraper: self.processed_event_ids
    enh_all,              \* enhanced scraper: all_events of the running scrape_all_events
    enh_page,             \* enhanced scraper: index of the next venue page
    enh_pc,               \* enhanced scraper: position in run_scraping_job
    enh_runs,             \* enhanced scraper: number of runs started
    enh_out,              \* enhanced scraper: the list scrape_all_events returned
    enh_result,           \* enhanced scraper: what the last run_scraping_job returned
    enh_feed,             \* enhanced scraper: the file at OUTPUT_PATH
    enh_accepted,         \* history: the ids added to processed_event_ids in this run
    enh_first             \* history: the ids of the events the first run returned

regVars  == <<event_registry, processed_event_ids, last, registered, calls>>
pairVars == <<registry_rev, candA, candB, pairPc>>
runVars  == <<site, pc, runs, now, feed, result, events_out, handed,
              written, prev_handed, prev_feed, page_modes>>
buildVars == <<obs, nobs>>
enhVars  == <<enh_site, enh_ids, enh_all, enh_page, enh_pc, enh_runs, enh_out,
              enh_result, enh_feed, enh_accepted, enh_first>>
vars     == <<regVars, pairVars, runVars, buildVars, enhVars>>

----------------------------------------------------------------------------
(* Strings *)

EmptyStr == <<>>

IsWs(c) == c = " "

LowerChar(c) ==
    CASE c = "A" -> "a"
      [] c = "B" -> "b"
      [] c = "D" -> "d"
      [] c = "M" -> "m"
      [] c = "T" -> "t"
      [] OTHER   -> c

Lower(s) == [i \in 1..Len(s) |-> LowerChar(s[i])]

RECURSIVE LStrip(_)
LStrip(s) == IF s # <<>> /\ IsWs(Head(s)) THEN LStrip(Tail(s)) ELSE s

RECURSIVE RStrip(_)
RStrip(s) ==
    IF s # <<>> /\ IsWs(s[Len(s)]) THEN RStrip(SubSeq(s, 1, Len(s) - 1)) ELSE s

Strip(s) == RStrip(LStrip(s))

StartsWith(s, p) == Len(s) >= Len(p) /\ SubSeq(s, 1, Len(p)) = p

\* re.sub(r'\s+', ' ', s): every maximal run of whitespace becomes one blank
RECURSIVE CollapseWs(_)
CollapseWs(s) ==
    IF s = <<>> THEN <<>>
    ELSE IF IsWs(Head(s)) THEN <<" ">> \o CollapseWs(LStrip(s))
    ELSE <<Head(s)>> \o CollapseWs(Tail(s))

\* sub in s
Contains(s, sub) ==
    \E i \in 1..(Len(s) - Len(sub) + 1) : SubSeq(s, i, i + Len(sub) - 1) = sub

\* ' '.join(parts)
RECURSIVE JoinBlank(_)
JoinBlank(parts) ==
    IF parts = <<>> THEN <<>>
    ELSE IF Len(parts) = 1 THEN parts[1]
    ELSE parts[1] \o <<" ">> \o JoinBlank(Tail(parts))

\* the one element of a singleton set; { F(x) : x \in {e} } computes e once
TheOne(S) == CHOOSE x \in S : TRUE

InSeq(x, s) == \E i \in 1..Len(s) : s[i] = x

----------------------------------------------------------------------------
(* Status prefixes and titles *)

\* the two status markers; in the source both are multi-character strings
\* that begin with the same characters
StandbyPrefix == <<"#", "s">>
TicketPrefix  == <<"#", "t", "v">>

known_prefixes == <<StandbyPrefix, TicketPrefix>>
status_order   == <<StandbyPrefix, TicketPrefix>>

\* the while loop of _split_title_prefixes
RECURSIVE SplitLoop(_, _)
SplitLoop(remaining, statuses) ==
    IF remaining = <<>> THEN [statuses |-> statuses, core |-> remaining]
    ELSE IF StartsWith(remaining, known_prefixes[1])
      THEN SplitLoop(LStrip(SubSeq(remaining, Len(known_prefixes[1]) + 1, Len(remaining))),
                     Append(statuses, known_prefixes[1]))
    ELSE IF StartsWith(remaining, known_prefixes[2])
      THEN SplitLoop(LStrip(SubSeq(remaining, Len(known_prefixes[2]) + 1, Len(remaining))),
                     Append(statuses, known_prefixes[2]))
    ELSE [statuses |-> statuses, core |-> remaining]

SplitTitlePrefixes(title) ==
    IF title = <<>> THEN [statuses |-> <<>>, core |-> <<>>]
    ELSE SplitLoop(Strip(title), <<>>)

NormalizeTitleForId(title) ==
    Lower(Strip(CollapseWs(SplitTitlePrefixes(title).core)))

----------------------------------------------------------------------------
(* Identity and merge *)

\* the md5 digest of the joined key parts, kept as the tuple of the parts
CreateEventId(e) ==
    <<NormalizeTitleForId(e.title), e.start, Lower(Strip(e.venue))>>

VenuePlaceholders == {<<>>, <<"T", "B", "D">>, <<"U", "n", "k", "n", "o", "w", "n">>}

\* mutant: the markers of the incoming candidate replace those of the record
MergedStatusesNewOnly(existing_statuses, new_statuses) ==
    SelectSeq(status_order, LAMBDA st : InSeq(st, new_statuses))

MergedStatuses(existing_statuses, new_statuses) ==
    SelectSeq(status_order,
              LAMBDA st : InSeq(st, existing_statuses) \/ InSeq(st, new_statuses))

\* mutant: the incoming base title wins whenever it is non-empty
MergedBaseNewWins(existing_base, new_base) ==
    IF new_base # <<>> THEN new_base ELSE existing_base

\* max(base_candidates, key=len) over the non-empty ones; the first maximum wins
MergedBase(existing_base, new_base) ==
    IF existing_base # <<>> /\ new_base # <<>>
      THEN IF Len(new_base) > Len(existing_base) THEN new_base ELSE existing_base
    ELSE IF existing_base # <<>> THEN existing_base
    ELSE new_base

\* mutant: with a status marker the title loses its base
AssembledTitleStatusOnly(merged_statuses, merged_base) ==
    IF merged_statuses # <<>>
      THEN JoinBlank(merged_statuses)
      ELSE merged_base

\* lines 705-708
AssembledTitle(merged_statuses, merged_base) ==
    IF merged_statuses # <<>>
      THEN Strip(JoinBlank(merged_statuses) \o <<" ">> \o merged_base)
      ELSE merged_base

NewTitle(existing, new_data) ==
    LET es == SplitTitlePrefixes(existing.title)
        ns == SplitTitlePrefixes(new_data.title)
    IN  AssembledTitle(MergedStatuses(es.statuses, ns.statuses),
                       MergedBase(es.core, ns.core))

\* mutant: the assembled title is assigned without comparing it
TitleAssignedUncompared(existing, new_data) ==
    LET es == SplitTitlePrefixes(existing.title)
        ns == SplitTitlePrefixes(new_data.title)
    IN  /\ (MergedBase(es.core, ns.core) # <<>>
            \/ MergedStatuses(es.statuses, ns.statuses) # <<>>)
        /\ NewTitle(existing, new_data) # <<>>

\* lines 705-711: the title is assigned, and changed set
TitleAssigned(existing, new_data) ==
    LET es == SplitTitlePrefixes(existing.title)
        ns == SplitTitlePrefixes(new_data.title)
        assembled == NewTitle(existing, new_data)
    IN  /\ (MergedBase(es.core, ns.core) # <<>>
            \/ MergedStatuses(es.statuses, ns.statuses) # <<>>)
        /\ assembled # <<>>
        /\ assembled # existing.title

\* mutant: a description that is not shorter replaces the stored one
DescriptionAssignedNotShorter(existing, new_data) ==
    /\ new_data.description # <<>>
    /\ Len(new_data.description) >= Len(existing.description)

\* mutant: any non-empty incoming description replaces the stored one
DescriptionAssignedAnyNew(existing, new_data) ==
    new_data.description # <<>>

\* lines 716-718
DescriptionAssigned(existing, new_data) ==
    /\ new_data.description # <<>>
    /\ Len(new_data.description) > Len(existing.description)

\* mutant: the venue is assigned without comparing it with the stored one
VenueAssignedUncompared(existing, new_data) ==
    /\ new_data.venue # <<>>
    /\ (existing.venue = <<>> \/ existing.venue \in VenuePlaceholders)

\* lines 723-726
VenueAssigned(existing, new_data) ==
    /\ new_data.venue # <<>>
    /\ (existing.venue = <<>> \/ existing.venue \in VenuePlaceholders)
    /\ new_data.venue # existing.venue

EventIdParam == <<"eventId=">>

\* mutant: a url with an eventId parameter always replaces the stored one
UrlAssignedAnyEventId(existing, new_data) ==
    /\ new_data.url # <<>>
    /\ (existing.url = <<>> \/ Contains(new_data.url, EventIdParam))
    /\ new_data.url # existing.url

\* lines 731-738
UrlAssigned(existing, new_data) ==
    /\ new_data.url # <<>>
    /\ (existing.url = <<>>
        \/ (Contains(new_data.url, EventIdParam)
            /\ ~Contains(existing.url, EventIdParam)))
    /\ new_data.url # existing.url

\* lines 741-743
SourceUrlAssigned(existing, new_data) ==
    existing.source_url = <<>> /\ new_data.source_url # <<>>

\* _merge_event_records: the record after the merge and the flag it returns
MergeEventRecords(existing, new_data) ==
    [existing |->
        [title       |-> IF TitleAssigned(existing, new_data)
                           THEN NewTitle(existing, new_data) ELSE existing.title,
         start       |-> existing.start,
         venue       |-> IF VenueAssigned(existing, new_data)
                           THEN new_data.venue ELSE existing.venue,
         description |-> IF DescriptionAssigned(existing, new_data)
                           THEN new_data.description ELSE existing.description,
         url         |-> IF UrlAssigned(existing, new_data)
                           THEN new_data.url ELSE existing.url,
         source_url  |-> IF SourceUrlAssigned(existing, new_data)
                           THEN new_data.source_url ELSE existing.source_url],
     changed |-> \/ TitleAssigned(existing, new_data)
                 \/ DescriptionAssigned(existing, new_data)
                 \/ VenueAssigned(existing, new_data)
                 \/ UrlAssigned(existing, new_data)
                 \/ SourceUrlAssigned(existing, new_data),
     \* new_data is only read: no line of 683-745 assigns to it
     new_data |-> new_data]

\* mutant: the lookup never finds the record
IsNewIdAlways(reg, id) == TRUE

\* registry.get(event_id) is None
IsNewId(reg, id) == id \notin DOMAIN reg

\* mutant: a merge leaves only the merged record in the registry
RegisterEventReplacing(reg, ids, e) ==
    LET id == CreateEventId(e)
    IN  IF IsNewId(reg, id)
          THEN [registry |-> reg @@ (id :> e),
                ids      |-> ids \cup {id},
                is_new   |-> TRUE,
                stored   |-> e,
                changed  |-> FALSE,
                cand_after |-> e]
          ELSE LET m == MergeEventRecords(reg[id], e)
               IN  [registry |-> (id :> m.existing),
                    ids      |-> ids,
                    is_new   |-> FALSE,
                    stored   |-> m.existing,
                    changed  |-> m.changed,
                    cand_after |-> m.new_data]

\* _register_event on a registry and id set: the new registry, the new id set,
\* the returned (is_new, stored_event, changed) and the candidate after the call
RegisterEvent(reg, ids, e) ==
    LET id == CreateEventId(e)
    IN  IF IsNewId(reg, id)
          THEN [registry |-> reg @@ (id :> e),
                ids      |-> ids \cup {id},
                is_new   |-> TRUE,
                stored   |-> e,
                changed  |-> FALSE,
                cand_after |-> e]
          ELSE LET m == MergeEventRecords(reg[id], e)
               IN  [registry |-> [reg EXCEPT ![id] = m.existing],
                    ids      |-> ids,
                    is_new   |-> FALSE,
                    stored   |-> m.existing,
                    changed  |-> m.changed,
                    cand_after |-> m.new_data]

----------------------------------------------------------------------------
(* Candidate observations *)

Blank == <<" ">>

\* titles as the builders hand them over: stripped and non-empty
TitleFilmX        == <<"a">>
TitleFilmXUpper   == <<"A">>
TitleTicketFilmX  == TicketPrefix \o Blank \o <<"a">>
TitleTicketNoGap  == TicketPrefix \o <<"a">>
TitleStandbyFilmX == StandbyPrefix \o Blank \o <<"a">>
TitleTicketFirst  == TicketPrefix \o Blank \o StandbyPrefix \o Blank \o <<"a">>
TitleTwoWords     == <<"a", " ", "b">>
TitleWideGap      == <<"a", " ", " ", "b">>
TitleOther        == <<"a", "M">>

AllTitles ==
    {TitleFilmX, TitleFilmXUpper, TitleTicketFilmX,
     TitleStandbyFilmX, TitleTicketFirst, TitleTwoWords, TitleWideGap}

VenueNone     == <<>>
VenueMainHall == <<"M">>
VenueMainLow  == <<"m">>
VenueTBD      == <<"T", "B", "D">>
VenueTbdLow   == <<"t", "b", "d">>

AllVenues == {VenueNone, VenueMainHall, VenueMainLow, VenueTBD, VenueTbdLow}

DescNone  == <<>>
DescShort == <<"x">>
DescOther == <<"y">>
DescLong  == <<"x", "y">>

AllDescriptions == {DescNone, DescShort, DescOther, DescLong}

PageOne   == <<"p1">>
PageTwo   == <<"p2">>
DetailUrl == <<"all?", "eventId=", "1">>
DetailUrlTwo == <<"all?", "eventId=", "2">>

AllPages == {PageOne, PageTwo}

\* start timestamps, in minutes after 2025-10-15T00:00
StartEvening == 1140
StartLater   == 1260

\* a candidate as _extract_event_from_card and _parse_events_with_llm build it:
\* the url is the detail url or else the page the card came from
Candidate(t, s, v, d, u, p) ==
    [title |-> t, start |-> s, venue |-> v, description |-> d,
     url |-> u, source_url |-> p]

CandidatesAt(starts) ==
    { Candidate(t, s, v, d, u, p) :
        t \in AllTitles, s \in starts, v \in AllVenues, d \in AllDescriptions,
        u \in {DetailUrl} \cup AllPages, p \in AllPages }

IsBuilt(c) ==
    \/ c.url = c.source_url
    \/ c.url = DetailUrl /\ c.source_url = PageOne

NoCandidate == [title |-> <<>>, start |-> 0, venue |-> <<>>, description |-> <<>>,
                url |-> <<>>, source_url |-> <<>>]

NoResult == [cand |-> NoCandidate, is_new |-> FALSE, changed |-> FALSE,
             stored |-> NoCandidate, before |-> <<>>, seen |-> {},
             cand_after |-> NoCandidate]

\* what one _register_event call did: its argument, what it returned, and
\* the registry it found
CallResult(reg, ids, seen, e) ==
    LET r == RegisterEvent(reg, ids, e)
    IN  [cand |-> e, is_new |-> r.is_new, changed |-> r.changed,
         stored |-> r.stored, before |-> reg, seen |-> seen,
         cand_after |-> r.cand_after]

SameKey(a, b) == CreateEventId(a) = CreateEventId(b)

NoFeed == [exists |-> FALSE, entries |-> <<>>, failAt |-> -1]

\* the variables of the run driver while only _register_event is exercised
RunIdle ==
    /\ site = <<>>
    /\ pc = "off"
    /\ runs = 0
    /\ now = 0
    /\ feed = NoFeed
    /\ result = FALSE
    /\ events_out = <<>>
    /\ handed = <<>>
    /\ written = <<>>
    /\ prev_handed = <<>>
    /\ prev_feed = NoFeed
    /\ page_modes = <<>>

\* the variables of the two-candidate scenario while it is not exercised
PairIdle ==
    /\ registry_rev = <<>>
    /\ candA = NoCandidate
    /\ candB = NoCandidate
    /\ pairPc = 0

\* a raw observation: what a card shows (path "dom": the texts found by the
\* selectors, the text after 'Venue:', the detail url, whether the card text
\* has 'order tickets') or the fields of a text-model chunk (path "llm")
RawObservation(path, title, date, time, venue, description, detail, tickets, source) ==
    [path |-> path, title |-> title, date |-> date, time |-> time, venue |-> venue,
     description |-> description, detail_url |-> detail, order_tickets |-> tickets,
     source_url |-> source]

NoObservation ==
    RawObservation("none", <<>>, <<>>, <<>>, <<>>, <<>>, <<>>, FALSE, <<>>)

BuildIdle ==
    /\ obs = NoObservation
    /\ nobs = 0

\* the variables of the enhanced scraper while it is not exercised
EnhIdle ==
    /\ enh_site = <<>>
    /\ enh_ids = {}
    /\ enh_all = <<>>
    /\ enh_page = 0
    /\ enh_pc = "off"
    /\ enh_runs = 0
    /\ enh_out = <<>>
    /\ enh_result = FALSE
    /\ enh_feed = NoFeed
    /\ enh_accepted = {}
    /\ enh_first = {}

----------------------------------------------------------------------------
(* Dates: _parse_datetime *)

YEAR == 2025

Letters ==
    { "A", "B", "C", "D", "E", "F", "G", "H", "I", "J", "K", "L", "M", "N", "O", "P", "Q", "R", "S", "T", "U", "V", "W", "X", "Y", "Z",
      "a", "b", "c", "d", "e", "f", "g", "h", "i", "j", "k", "l", "m", "n", "o", "p", "q", "r", "s", "t", "u", "v", "w", "x", "y", "z" }
Digits == {"0", "1", "2", "3", "4", "5", "6", "7", "8", "9"}

\* \w
IsWordChar(c) == c \in Letters \cup Digits \cup {"_"}

DigitVal(c) ==
    CASE c = "0" -> 0 [] c = "1" -> 1 [] c = "2" -> 2 [] c = "3" -> 3 [] c = "4" -> 4
      [] c = "5" -> 5 [] c = "6" -> 6 [] c = "7" -> 7 [] c = "8" -> 8 [] OTHER -> 9

\* int() of one or two digits
NumVal(ds) == IF Len(ds) = 1 THEN DigitVal(ds[1]) ELSE 10 * DigitVal(ds[1]) + DigitVal(ds[2])

\* the characters of s that are left when those at the positions in del go
DeleteAt(s, del) ==
    LET keep == (1..Len(s)) \ del
    IN  [k \in 1..Cardinality(keep) |->
            s[CHOOSE j \in keep : Cardinality({x \in keep : x <= j}) = k]]

\* length of the match of \bE[DS]?T\b\.? that starts at i, 0 when there is none
TzLenAt(s, i) ==
    LET t == IF i + 1 <= Len(s) /\ s[i + 1] \in {"D", "S"} THEN i + 2 ELSE i + 1
    IN  IF /\ s[i] = "E"
           /\ (i = 1 \/ ~IsWordChar(s[i - 1]))
           /\ t <= Len(s)
           /\ s[t] = "T"
           /\ (t = Len(s) \/ ~IsWordChar(s[t + 1]))
          THEN IF t < Len(s) /\ s[t + 1] = "." THEN t + 2 - i ELSE t + 1 - i
          ELSE 0

\* re.sub(r'\bE[DS]?T\b\.?', '', s)
RemoveTz(s) ==
    DeleteAt(s, { j \in 1..Len(s) :
                    \E i \in 1..j : TzLenAt(s, i) > 0 /\ j < i + TzLenAt(s, i) })

\* str.strip(chars)
StripChars(s, chars) ==
    LET inner == { i \in 1..Len(s) : s[i] \notin chars }
    IN  IF inner = {} THEN <<>>
        ELSE SubSeq(s, CHOOSE i \in inner : \A j \in inner : i <= j,
                       CHOOSE i \in inner : \A j \in inner : j <= i)

\* line 614
CleanDateText(date_text) ==
    StripChars(StripChars(RemoveTz(date_text), {",", " "}), {" "})

\* the first position from i on whose character is not in class
RunEnd(s, i, class) ==
    CHOOSE j \in i..(Len(s) + 1) :
        /\ j = Len(s) + 1 \/ s[j] \notin class
        /\ \A k \in i..(j - 1) : s[k] \in class

\* one element of a pattern matched at position i: the position after it, 0
\* when it does not match.  In the four patterns every repetition is followed
\* by a character outside its class, so the greedy match is the only one.
MatchElem(el, s, i) ==
    CASE el = "\\s+" ->
            IF RunEnd(s, i, {" "}) > i THEN RunEnd(s, i, {" "}) ELSE 0
      [] el = "[A-Za-z]+" ->
            IF RunEnd(s, i, Letters) > i THEN RunEnd(s, i, Letters) ELSE 0
      [] el = "[A-Za-z]{3}" ->
            IF i + 2 <= Len(s) /\ \A k \in i..(i + 2) : s[k] \in Letters THEN i + 3 ELSE 0
      [] el = "\\d{1,2}" ->
            IF i <= Len(s) /\ s[i] \in Digits
              THEN IF i + 1 <= Len(s) /\ s[i + 1] \in Digits THEN i + 2 ELSE i + 1
              ELSE 0
      [] el = "\\d{2}" ->
            IF i + 1 <= Len(s) /\ s[i] \in Digits /\ s[i + 1] \in Digits THEN i + 2 ELSE 0
      [] el = "[AP]" ->
            IF i <= Len(s) /\ s[i] \in {"A", "P"} THEN i + 1 ELSE 0
      [] OTHER ->
            IF i <= Len(s) /\ s[i] = el THEN i + 1 ELSE 0

NoMatch == [ok |-> FALSE, marks |-> <<>>]

\* the elements from the k-th on matched at position i; marks are the
\* positions of the group parentheses passed
RECURSIVE MatchFrom(_, _, _, _, _)
MatchFrom(elems, k, s, i, marks) ==
    IF k > Len(elems) THEN [ok |-> TRUE, marks |-> marks]
    ELSE IF elems[k] \in {"(", ")"}
      THEN TheOne({ MatchFrom(elems, k + 1, s, i, m) : m \in {Append(marks, i)} })
    ELSE TheOne({ IF j = 0 THEN NoMatch ELSE MatchFrom(elems, k + 1, s, j, marks) :
                  j \in {MatchElem(elems[k], s, i)} })

MonthDay == <<"(", "[A-Za-z]{3}", ")", "\\s+", "(", "\\d{1,2}", ")">>
TimeOfDay == <<"(", "\\d{1,2}", ":", "\\d{2}", "\\s+", "[AP]", "M", ")">>

\* mutant: the weekday-prefixed 'at' pattern is missing
patternsWithoutAt ==
    << [anchored |-> FALSE,
        elems |-> MonthDay \o <<",", "\\s+">> \o TimeOfDay],
       [anchored |-> TRUE,
        elems |-> <<"[A-Za-z]+", ",", "\\s+">> \o MonthDay \o <<",", "\\s+">> \o TimeOfDay],
       [anchored |-> TRUE,
        elems |-> <<"[A-Za-z]{3}", ",", "\\s+">> \o MonthDay \o <<",", "\\s+">> \o TimeOfDay] >>

\* lines 617-626
patterns ==
    << [anchored |-> TRUE,
        elems |-> <<"[A-Za-z]+", ",", "\\s+">> \o MonthDay
                  \o <<"\\s+", "a", "t", "\\s+">> \o TimeOfDay],
       [anchored |-> FALSE,
        elems |-> MonthDay \o <<",", "\\s+">> \o TimeOfDay],
       [anchored |-> TRUE,
        elems |-> <<"[A-Za-z]+", ",", "\\s+">> \o MonthDay \o <<",", "\\s+">> \o TimeOfDay],
       [anchored |-> TRUE,
        elems |-> <<"[A-Za-z]{3}", ",", "\\s+">> \o MonthDay \o <<",", "\\s+">> \o TimeOfDay] >>

\* re.search: the leftmost match
Search(pattern, s) ==
    LET starts == IF pattern.anchored THEN {1} ELSE 1..Len(s)
        hits   == { i \in starts : MatchFrom(pattern.elems, 1, s, i, <<>>).ok }
    IN  IF hits = {} THEN NoMatch
        ELSE MatchFrom(pattern.elems, 1, s, CHOOSE i \in hits : \A j \in hits : i <= j, <<>>)

\* line 628
MonthNum(m) ==
    CASE m = <<"J", "a", "n">> -> 1
      [] m = <<"F", "e", "b">> -> 2
      [] m = <<"M", "a", "r">> -> 3
      [] m = <<"A", "p", "r">> -> 4
      [] m = <<"M", "a", "y">> -> 5
      [] m = <<"J", "u", "n">> -> 6
      [] m = <<"J", "u", "l">> -> 7
      [] m = <<"A", "u", "g">> -> 8
      [] m = <<"S", "e", "p">> -> 9
      [] m = <<"O", "c", "t">> -> 10
      [] m = <<"N", "o", "v">> -> 11
      [] m = <<"D", "e", "c">> -> 12
      [] OTHER -> 0

DaysIn(month) ==
    CASE month = 2 -> 28
      [] month \in {4, 6, 9, 11} -> 30
      [] OTHER -> 31

NoDate == [year |-> 0, month |-> 0, day |-> 0, hour |-> 0, minute |-> 0, second |-> 0]

\* datetime.strptime(f"{YEAR}-{month_num:02d}-{int(day_str):02d} {time_str}",
\* "%Y-%m-%d %I:%M %p"); NoDate stands for the ValueError
StrpTime(month_num, day_str, time_str) ==
    LET colon  == CHOOSE i \in 1..Len(time_str) : time_str[i] = ":"
        hour12 == NumVal(SubSeq(time_str, 1, colon - 1))
        minute == NumVal(SubSeq(time_str, colon + 1, colon + 2))
        pm     == time_str[Len(time_str) - 1] = "P"
        day    == NumVal(day_str)
    IN  IF day \in 1..DaysIn(month_num) /\ hour12 \in 1..12 /\ minute \in 0..59
          THEN [year   |-> YEAR,
                month  |-> month_num,
                day    |-> day,
                hour   |-> (hour12 % 12) + (IF pm THEN 12 ELSE 0),
                minute |-> minute,
                second |-> 0]
          ELSE NoDate

\* the for loop of _parse_datetime from the k-th pattern on
RECURSIVE TryPatterns(_, _)
TryPatterns(s, k) ==
    IF k > Len(patterns) THEN NoDate
    ELSE TheOne({ IF ~m.ok \/ MonthNum(SubSeq(s, m.marks[1], m.marks[2] - 1)) = 0
                    THEN TryPatterns(s, k + 1)
                  ELSE TheOne({ IF dt = NoDate THEN TryPatterns(s, k + 1) ELSE dt :
                                dt \in {StrpTime(MonthNum(SubSeq(s, m.marks[1], m.marks[2] - 1)),
                                                 SubSeq(s, m.marks[3], m.marks[4] - 1),
                                                 SubSeq(s, m.marks[5], m.marks[6] - 1))} }) :
                  m \in {Search(patterns[k], s)} })

\* _parse_datetime; NoDate stands for None
ParseDatetime(date_text) ==
    IF date_text = <<>> THEN NoDate
    ELSE TheOne({ TryPatterns(s, 1) : s \in {CleanDateText(date_text)} })

----------------------------------------------------------------------------
(* Two scrapers register the same two candidates in opposite orders *)

PairInit ==
    /\ candA \in { c \in CandidatesAt({StartEvening}) : IsBuilt(c) }
    /\ candB \in { c \in CandidatesAt({StartEvening}) :
                     /\ IsBuilt(c)
                     /\ NormalizeTitleForId(c.title) = NormalizeTitleForId(candA.title)
                     /\ (SameKey(c, candA) \/ candA.venue = VenueNone) }
    /\ pairPc = 0
    /\ event_registry = <<>>
    /\ registry_rev = <<>>
    /\ processed_event_ids = {}
    /\ last = NoResult
    /\ registered = {}
    /\ calls = 0
    /\ RunIdle
    /\ BuildIdle
    /\ EnhIdle

\* first call of each scraper: A into the one, B into the other
RegisterFirst ==
    /\ pairPc = 0
    /\ event_registry' = RegisterEvent(event_registry, processed_event_ids, candA).registry
    /\ processed_event_ids' = RegisterEvent(event_registry, processed_event_ids, candA).ids
    /\ last' = CallResult(event_registry, processed_event_ids, registered, candA)
    /\ registry_rev' = RegisterEvent(registry_rev, {}, candB).registry
    /\ registered' = registered \cup {candA}
    /\ calls' = calls + 1
    /\ pairPc' = 1
    /\ UNCHANGED <<candA, candB, runVars, buildVars, enhVars>>

\* second call of each scraper: B into the one, A into the other
RegisterSecond ==
    /\ pairPc = 1
    /\ event_registry' = RegisterEvent(event_registry, processed_event_ids, candB).registry
    /\ processed_event_ids' = RegisterEvent(event_registry, processed_event_ids, candB).ids
    /\ last' = CallResult(event_registry, processed_event_ids, registered, candB)
    /\ registry_rev' = RegisterEvent(registry_rev, DOMAIN registry_rev, candA).registry
    /\ registered' = registered \cup {candB}
    /\ calls' = calls + 1
    /\ pairPc' = 2
    /\ UNCHANGED <<candA, candB, runVars, buildVars, enhVars>>

PairNext == RegisterFirst \/ RegisterSecond

SpecPair == PairInit /\ [][PairNext]_vars

----------------------------------------------------------------------------
(* One run's sequence of _register_event calls *)

MaxCalls == 3

RegCandidates ==
    { Candidate(TitleFilmX,        StartEvening, VenueNone,     DescNone,  PageOne,   PageOne),
      Candidate(TitleTicketFilmX,  StartEvening, VenueMainHall, DescShort, DetailUrl, PageOne),
      Candidate(TitleTicketFilmX,  StartEvening, VenueNone,     DescShort, DetailUrl, PageOne),
      Candidate(TitleStandbyFilmX, StartEvening, VenueNone,     DescOther, PageTwo,   PageTwo),
      Candidate(TitleTicketFirst,  StartEvening, VenueNone,     DescLong,  PageOne,   PageOne),
      Candidate(TitleFilmXUpper,   StartEvening, VenueMainLow,  DescNone,  PageTwo,   PageTwo),
      Candidate(TitleFilmX,        StartLater,   VenueNone,     DescLong,  PageOne,   PageOne),
      Candidate(TitleTicketNoGap,  StartLater,   VenueNone,     DescNone,  DetailUrl, PageOne),
      Candidate(TitleWideGap,      StartEvening, VenueTBD,      DescShort, PageOne,   PageOne),
      Candidate(TitleTwoWords,     StartEvening, VenueTbdLow,   DescOther, PageTwo,   PageTwo),
      Candidate(TitleFilmX,        StartEvening, VenueNone,     DescNone,  DetailUrlTwo, PageTwo),
      Candidate(TitleOther,        StartEvening, VenueMainHall, DescNone,  PageTwo,   PageTwo) }

RegInit ==
    /\ event_registry = <<>>
    /\ processed_event_ids = {}
    /\ last = NoResult
    /\ registered = {}
    /\ calls = 0
    /\ PairIdle
    /\ RunIdle
    /\ BuildIdle
    /\ EnhIdle

\* one call of _register_event
Register(e) ==
    /\ calls < MaxCalls
    /\ event_registry' = RegisterEvent(event_registry, processed_event_ids, e).registry
    /\ processed_event_ids' = RegisterEvent(event_registry, processed_event_ids, e).ids
    /\ last' = CallResult(event_registry, processed_event_ids, registered, e)
    /\ registered' = registered \cup {e}
    /\ calls' = calls + 1
    /\ UNCHANGED <<pairVars, runVars, buildVars, enhVars>>

RegNext == \E e \in RegCandidates : Register(e)

SpecReg == RegInit /\ [][RegNext]_vars

----------------------------------------------------------------------------
(* The run: scrape_all_events and run_scraping_job *)

MaxRuns == 2

DEFAULT_DURATION_HOURS == 2
MAX_DETAIL_PAGE_ENHANCEMENTS == 150

\* the three hard-coded events of _get_custom_events, in the order of the code
StartShorts == 2610
StartCenter == 5310

TitleBreak   == <<"B">>
TitleCenter  == <<"D", "a">>
TitleShorts  == <<"M", "a">>
VenueColony  == <<"D">>
VenueCenter  == <<"B">>
UrlFilmGuide == <<"guide?", "filmId=", "1">>
UrlCenter    == <<"all?", "eventId=", "2">>
PageColony   == <<"p3">>
PageShorts   == <<"p4">>

CustomEvents ==
    << Candidate(TitleBreak,  StartEvening, VenueColony, <<"x", "y", "x">>, UrlFilmGuide, PageColony),
       Candidate(TitleCenter, StartCenter,  VenueCenter, <<"y", "x">>,      UrlCenter,    UrlCenter),
       Candidate(TitleShorts, StartShorts,  VenueTBD,    <<"y", "y", "x">>, PageShorts,   PageShorts) >>

\* cards of the venue pages
VenueAnnex == <<"K">>

CardA        == Candidate(TitleFilmX,       StartEvening, VenueMainHall, DescShort, DetailUrl, PageOne)
CardLate     == Candidate(TitleFilmX,       StartLater,   VenueNone,     DescNone,  PageOne,   PageOne)
CardTwoWords == Candidate(TitleTwoWords,    StartEvening, VenueMainHall, DescNone,  PageOne,   PageOne)
CardB        == Candidate(TitleFilmX,       StartEvening, VenueAnnex,    DescOther, DetailUrl, PageTwo)
CardTicket   == Candidate(TitleTicketFilmX, StartEvening, VenueMainLow,  DescLong,  PageTwo,   PageTwo)
\* cards that show the hard-coded events
CardColony   == Candidate(<<"b">>,      StartEvening, <<"d">>,     DescNone, PageOne, PageOne)
CardCenter   == Candidate(<<"d", "a">>, StartCenter,  <<"b">>,     DescNone, PageOne, PageOne)
CardShorts   == Candidate(<<"m", "a">>, StartShorts,  VenueTbdLow, DescNone, PageTwo, PageTwo)

PageOneContents == { <<>>, <<CardA>>, <<CardLate, CardTwoWords>>, <<CardColony, CardCenter>> }
PageTwoContents == { <<>>, <<CardB>>, <<CardTicket, CardA>>, <<CardShorts>> }

\* what happens to one page in one run: extracted, fetched empty, or an
\* exception after its cards were registered
PageModes == {"ok", "empty", "raise"}
\* the modes of the two pages in one run
RunModes == { <<"ok", "ok">>, <<"ok", "empty">>, <<"raise", "ok">>, <<"raise", "raise">> }

\* what a detail page yields: nothing usable, or a description, the
\* STANDBY ONLY text and a venue
NoPage      == [ok |-> FALSE, desc |-> <<>>, standby |-> FALSE, venue |-> <<>>]
PageStandby == [ok |-> TRUE, desc |-> <<"x", "y", "x", "y">>, standby |-> TRUE, venue |-> <<>>]
PageVenue   == [ok |-> TRUE, desc |-> <<>>, standby |-> FALSE, venue |-> <<"Z">>]

DetailSites ==
    { [main |-> NoPage,      center |-> NoPage],
      [main |-> PageStandby, center |-> NoPage],
      [main |-> PageVenue,   center |-> PageStandby] }

DetailFor(d, url) == IF url = UrlCenter THEN d.center ELSE d.main

\* one pass of the for loop of extract_events_from_page (and of the loop over
\* the custom events): register the candidate, collect it when it is new
RegisterCard(st, card) ==
    TheOne({ [registry |-> r.registry,
              ids      |-> r.ids,
              events   |-> IF r.is_new
                             THEN Append(st.events, CreateEventId(card))
                             ELSE st.events] :
             r \in {RegisterEvent(st.registry, st.ids, card)} })

RECURSIVE RegisterCards(_, _)
RegisterCards(st, cards) ==
    IF cards = <<>> THEN st
    ELSE TheOne({ RegisterCards(next, rest) :
                  next \in {RegisterCard(st, Head(cards))}, rest \in {Tail(cards)} })

\* the body of the page loop of scrape_all_events; st.events is all_events
ScrapePage(st, cards, mode) ==
    TheOne({ CASE mode = "ok"    -> [registry |-> r.registry, ids |-> r.ids,
                                     events |-> st.events \o r.events]
               [] mode = "raise" -> [registry |-> r.registry, ids |-> r.ids,
                                     events |-> st.events]
               [] OTHER          -> st :
             r \in {RegisterCards([registry |-> st.registry, ids |-> st.ids,
                                   events |-> <<>>], cards)} })

RECURSIVE ScrapePages(_, _, _, _)
ScrapePages(st, pages, modes, i) ==
    IF i > Len(pages) THEN st
    ELSE TheOne({ ScrapePages(next, pages, modes, i + 1) :
                  next \in {ScrapePage(st, pages[i], modes[i])} })

\* lines 1066-1079
AddCustomEvents(st) ==
    TheOne({ [registry |-> r.registry, ids |-> r.ids, events |-> st.events \o r.events] :
             r \in {RegisterCards([registry |-> st.registry, ids |-> st.ids,
                                   events |-> <<>>], CustomEvents)} })

IsEligible(e) == e.url # <<>> /\ Contains(e.url, EventIdParam)

\* enhance_event_with_detail_page
EnhanceEvent(e, page) ==
    IF ~IsEligible(e) \/ ~page.ok THEN e
    ELSE [e EXCEPT
            !.description = IF page.desc # <<>>
                               /\ (e.description = <<>> \/ Len(page.desc) > Len(e.description))
                              THEN page.desc ELSE @,
            !.title = IF page.standby /\ ~StartsWith(e.title, StandbyPrefix)
                        THEN StandbyPrefix \o Blank \o @ ELSE @,
            !.venue = IF page.venue # <<>> THEN page.venue ELSE @]

\* lines 1091-1100: the records are enhanced in place, in list order
RECURSIVE EnhanceAll(_, _, _, _, _)
EnhanceAll(reg, all, d, i, done) ==
    IF i > Len(all) THEN reg
    ELSE IF IsEligible(reg[all[i]]) /\ done < MAX_DETAIL_PAGE_ENHANCEMENTS
      THEN TheOne({ EnhanceAll(next, all, d, i + 1, done + 1) :
                    next \in {[reg EXCEPT ![all[i]] =
                                 EnhanceEvent(@, DetailFor(d, reg[all[i]].url))]} })
      ELSE EnhanceAll(reg, all, d, i + 1, done)

\* list.sort(key=start): stable
RECURSIVE InsertByStart(_, _, _)
InsertByStart(sorted, k, reg) ==
    IF sorted = <<>> THEN <<k>>
    ELSE IF reg[sorted[Len(sorted)]].start <= reg[k].start THEN Append(sorted, k)
    ELSE TheOne({ Append(InsertByStart(front, k, reg), sorted[Len(sorted)]) :
                  front \in {SubSeq(sorted, 1, Len(sorted) - 1)} })

RECURSIVE SortByStart(_, _)
SortByStart(all, reg) ==
    IF all = <<>> THEN <<>>
    ELSE TheOne({ InsertByStart(sorted, all[Len(all)], reg) :
                  sorted \in {SortByStart(SubSeq(all, 1, Len(all) - 1), reg)} })

\* mutant: the registry of the earlier run is kept
ClearRegistryKept(reg, ids) ==
    [registry |-> reg, ids |-> ids, events |-> <<>>]

\* lines 993-995: event_registry.clear(), processed_event_ids.clear();
\* all_events starts empty
ClearRegistry(reg, ids) ==
    [registry |-> <<>>, ids |-> {}, events |-> <<>>]

\* scrape_all_events on the instance's registry and id set: the registry it
\* leaves and the list it returns
ScrapeAllEvents(reg, ids, pages, modes, d) ==
    TheOne({ TheOne({ [registry |-> enhanced,
                       ids      |-> custom.ids,
                       events   |-> SortByStart(custom.events, enhanced)] :
                      enhanced \in {EnhanceAll(custom.registry, custom.events, d, 1, 0)} }) :
             custom \in {AddCustomEvents(
                            ScrapePages(ClearRegistry(reg, ids), pages, modes, 1))} })

----------------------------------------------------------------------------
(* The feed *)

Absent  == <<"(absent)">>
NoStamp == 0
NoFail  == -1

\* _generate_uid: slug, start and digest of title|start|venue, kept as the parts
GenerateUid(e) == <<e.title, e.start, e.venue>>

Dtend(e) == e.start + DEFAULT_DURATION_HOURS * 60

\* _event_signature_from_data
EventSignatureFromData(e) ==
    <<e.title, e.start, Dtend(e), e.venue, e.description, e.url>>

\* the VEVENT written for a record; falsy optional fields are left out
Component(e, stamp) ==
    [uid         |-> GenerateUid(e),
     dtstart     |-> e.start,
     dtend       |-> Dtend(e),
     summary     |-> e.title,
     location    |-> IF e.venue # <<>> THEN e.venue ELSE Absent,
     description |-> IF e.description # <<>> THEN e.description ELSE Absent,
     url         |-> IF e.url # <<>> THEN e.url ELSE Absent,
     dtstamp     |-> stamp]

\* normalize() of _event_signature_from_component
Normalize(value) == IF value = Absent THEN <<>> ELSE value

EventSignatureFromComponent(c) ==
    <<Normalize(c.summary), c.dtstart, c.dtend, Normalize(c.location),
      Normalize(c.description), Normalize(c.url)>>

\* how many VEVENTs of the file the loop of _load_existing_event_metadata
\* gets through before the read raises (all of them when it does not)
ParsedCount(f) ==
    IF ~f.exists THEN 0
    ELSE IF f.failAt = NoFail THEN Len(f.entries)
    ELSE IF f.failAt = 0 THEN 0
    ELSE f.failAt - 1

\* _load_existing_event_metadata: uid -> (dtstamp, signature); a later
\* VEVENT with the same uid overwrites an earlier one
LoadExistingEventMetadata(f) ==
    LET n    == ParsedCount(f)
        uids == { f.entries[i].uid : i \in 1..n }
        lastOf(u) == CHOOSE i \in 1..n :
                        /\ f.entries[i].uid = u
                        /\ \A j \in 1..n : f.entries[j].uid = u => j <= i
    IN  [u \in uids |->
            [dtstamp   |-> f.entries[lastOf(u)].dtstamp,
             signature |-> EventSignatureFromComponent(f.entries[lastOf(u)])]]

\* lines 913-918
ReuseStamp(metadata, e) ==
    /\ GenerateUid(e) \in DOMAIN metadata
    /\ metadata[GenerateUid(e)].signature = EventSignatureFromData(e)
    /\ metadata[GenerateUid(e)].dtstamp # NoStamp

\* generate_ics_calendar: the VEVENTs of the new calendar
Calendar(events, metadata, t) ==
    [i \in 1..Len(events) |->
        Component(events[i],
                  IF ReuseStamp(metadata, events[i])
                    THEN metadata[GenerateUid(events[i])].dtstamp
                    ELSE t)]

GenerateIcsCalendar(events, f, t) ==
    TheOne({ Calendar(events, metadata, t) : metadata \in {LoadExistingEventMetadata(f)} })

\* where a damaged file makes the read raise: in Calendar.from_ical (0) or
\* at the first or second VEVENT
FailPoints == {0, 1, 2}

Init ==
    /\ site \in { <<p1, p2>> : p1 \in PageOneContents, p2 \in PageTwoContents }
    /\ pc = "idle"
    /\ runs = 0
    /\ now = 0
    /\ feed = NoFeed
    /\ result = FALSE
    /\ events_out = <<>>
    /\ handed = <<>>
    /\ written = <<>>
    /\ prev_handed = <<>>
    /\ prev_feed = NoFeed
    /\ page_modes = <<>>
    /\ event_registry = <<>>
    /\ processed_event_ids = {}
    /\ last = NoResult
    /\ registered = {}
    /\ calls = 0
    /\ PairIdle
    /\ BuildIdle
    /\ EnhIdle

\* run_scraping_job up to the return of scrape_all_events
Scrape(modes, d) ==
    /\ pc = "idle"
    /\ runs < MaxRuns
    /\ \E r \in {ScrapeAllEvents(event_registry, processed_event_ids, site, modes, d)} :
           /\ event_registry' = r.registry
           /\ processed_event_ids' = r.ids
           /\ events_out' = r.events
           /\ handed' = [i \in 1..Len(r.events) |-> r.registry[r.events[i]]]
    /\ runs' = runs + 1
    /\ now' = now + 1
    /\ page_modes' = modes
    /\ pc' = "scraped"
    /\ UNCHANGED <<site, feed, result, written, prev_handed, prev_feed>>
    /\ UNCHANGED <<last, registered, calls, pairVars, buildVars, enhVars>>

NoEventsNever(events) == FALSE

\* "if not events" of run_scraping_job
NoEvents(events) == events = <<>>

\* run_scraping_job, lines 1117-1119: no events, nothing written
ReturnNoEvents ==
    /\ pc = "scraped"
    /\ NoEvents(events_out)
    /\ result' = FALSE
    /\ prev_feed' = feed
    /\ prev_handed' = written
    /\ pc' = "idle"
    /\ UNCHANGED <<site, runs, now, feed, events_out, handed, written, page_modes>>
    /\ UNCHANGED <<regVars, pairVars, buildVars, enhVars>>

\* mutant: the file is opened for appending
WrittenFileAppended(f, entries) ==
    [exists |-> TRUE, entries |-> f.entries \o entries, failAt |-> NoFail]

\* open(OUTPUT_PATH, 'w') and write: the file holds the new text only
WrittenFile(f, entries) ==
    [exists |-> TRUE, entries |-> entries, failAt |-> NoFail]

\* run_scraping_job, lines 1121-1129: generate the calendar and write it
WriteFeed ==
    /\ pc = "scraped"
    /\ ~NoEvents(events_out)
    /\ feed' = WrittenFile(feed, GenerateIcsCalendar(handed, feed, now))
    /\ result' = TRUE
    /\ prev_feed' = feed
    /\ prev_handed' = written
    /\ written' = handed
    /\ pc' = "idle"
    /\ UNCHANGED <<site, runs, now, events_out, handed, page_modes>>
    /\ UNCHANGED <<regVars, pairVars, buildVars, enhVars>>

\* between two runs the file is damaged so that reading it raises at k
DamageFeed(k) ==
    /\ pc = "idle"
    /\ feed.exists
    /\ feed.failAt = NoFail
    /\ k <= Len(feed.entries)
    /\ runs < MaxRuns
    /\ feed' = [feed EXCEPT !.failAt = k]
    /\ UNCHANGED <<site, pc, runs, now, result, events_out, handed, written,
                   prev_handed, prev_feed, page_modes>>
    /\ UNCHANGED <<regVars, pairVars, buildVars, enhVars>>

Next ==
    \/ \E modes \in RunModes, d \in DetailSites : Scrape(modes, d)
    \/ ReturnNoEvents
    \/ WriteFeed
    \/ \E k \in FailPoints : DamageFeed(k)

Spec == Init /\ [][Next]_vars

----------------------------------------------------------------------------
(* Building candidates: _extract_event_from_card and _parse_events_with_llm *)

MaxObs == 3

DaysBefore(month) ==
    CASE month <= 1 -> 0   [] month = 2 -> 31   [] month = 3 -> 59   [] month = 4 -> 90
      [] month = 5 -> 120  [] month = 6 -> 151  [] month = 7 -> 181  [] month = 8 -> 212
      [] month = 9 -> 243  [] month = 10 -> 273 [] month = 11 -> 304 [] OTHER -> 334

\* a datetime of YEAR as a start timestamp: minutes after 2025-10-15T00:00
Timestamp(dt) ==
    (DaysBefore(dt.month) + dt.day - (DaysBefore(10) + 15)) * 1440 + dt.hour * 60 + dt.minute

TextOct15At7pm    ==
    <<"O", "c", "t", " ", "1", "5", ",", " ", "7", ":", "0", "0", " ", "P", "M">>
TextWeekdayAt5pm  ==
    <<"W", "e", "d", "n", "e", "s", "d", "a", "y", ",", " ", "O", "c", "t", " ", "1", "5", " ", "a", "t", " ", "5", ":", "0", "0", " ", "P", "M", " ", "E", "T">>
TextWeekdayComma  ==
    <<"W", "e", "d", ",", " ", "O", "c", "t", " ", "1", "5", ",", " ", "7", ":", "0", "0", " ", "P", "M">>
TextTBA           ==
    <<"T", "B", "A">>
TextOct32         ==
    <<"O", "c", "t", " ", "3", "2", ",", " ", "5", ":", "0", "0", " ", "P", "M">>
TextIso           ==
    <<"2", "0", "2", "5", "-", "1", "0", "-", "1", "5", "T", "1", "7", ":", "0", "0", ":", "0", "0">>
TextWeekdayOct15  ==
    <<"W", "e", "d", "n", "e", "s", "d", "a", "y", ",", " ", "O", "c", "t", " ", "1", "5">>
TextTime5pmET     ==
    <<"5", ":", "0", "0", " ", "P", "M", " ", "E", "T">>
TextOct15         ==
    <<"O", "c", "t", " ", "1", "5">>
TextTime7pm       ==
    <<"7", ":", "0", "0", " ", "P", "M">>

VenueUnknown == <<"U", "n", "k", "n", "o", "w", "n">>

\* _infer_venue_from_url: PageOne stands for a page whose url names its venue,
\* every other url has none of the listed fragments
InferVenueFromUrl(url) == IF url = PageOne THEN VenueMainHall ELSE VenueNone

NoStartNever(start_dt) == FALSE

\* "if not start_dt", lines 302 and 574
NoStart(start_dt) == start_dt = NoDate

\* _extract_event_from_card; NoCandidate stands for None
ExtractEventFromCard(card, source_url) ==
    LET title      == Strip(card.title)
        date_text  == Strip(card.date)
        start_dt   == IF date_text # <<>> THEN ParseDatetime(date_text) ELSE NoDate
        card_venue == Strip(card.venue)
        venue      == IF card_venue # <<>> THEN card_venue ELSE InferVenueFromUrl(source_url)
    IN  IF title = <<>> THEN NoCandidate
        ELSE IF NoStart(start_dt) THEN NoCandidate
        ELSE Candidate(IF card.order_tickets /\ ~Contains(title, TicketPrefix)
                         THEN TicketPrefix \o Blank \o title ELSE title,
                       Timestamp(start_dt),
                       Strip(venue),
                       Strip(card.description),
                       IF card.detail_url # <<>> THEN card.detail_url ELSE source_url,
                       source_url)

\* lines 568-572
CombinedDatetime(date_part, time_part) ==
    IF date_part # <<>> /\ time_part # <<>>
      THEN date_part \o <<" ", "a", "t", " ">> \o time_part
    ELSE IF date_part # <<>> THEN date_part
    ELSE <<>>

\* one chunk of _parse_events_with_llm, lines 555-584; NoCandidate stands
\* for the chunk being skipped
ParseLlmChunkFields(fields, source_url) ==
    LET title    == Strip(fields.title)
        venue    == IF Strip(fields.venue) # <<>> THEN Strip(fields.venue)
                    ELSE InferVenueFromUrl(source_url)
        start_dt == ParseDatetime(CombinedDatetime(Strip(fields.date), Strip(fields.time)))
    IN  IF title = <<>> THEN NoCandidate
        ELSE IF NoStart(start_dt) THEN NoCandidate
        ELSE Candidate(title, Timestamp(start_dt), venue, Strip(fields.description),
                       source_url, source_url)

\* the candidate built from a raw observation
Build(o) ==
    IF o.path = "dom" THEN ExtractEventFromCard(o, o.source_url)
    ELSE ParseLlmChunkFields(o, o.source_url)

RawObservations ==
    { RawObservation("dom", TitleFilmX, TextOct15At7pm, <<>>, VenueNone, DescNone,
                     <<>>, FALSE, PageOne),
      RawObservation("dom", TitleFilmX, TextWeekdayAt5pm, <<>>, VenueMainHall, DescShort,
                     DetailUrl, TRUE, PageOne),
      RawObservation("dom", TitleTwoWords, TextWeekdayComma, <<>>, VenueTBD, DescNone,
                     <<>>, FALSE, PageTwo),
      RawObservation("dom", <<>>, TextOct15At7pm, <<>>, VenueMainHall, DescShort,
                     <<>>, FALSE, PageOne),
      RawObservation("dom", TitleFilmX, TextTBA, <<>>, VenueMainHall, DescShort,
                     DetailUrl, FALSE, PageOne),
      RawObservation("dom", TitleFilmX, <<>>, <<>>, VenueNone, DescNone,
                     <<>>, TRUE, PageTwo),
      RawObservation("dom", TitleTwoWords, TextOct32, <<>>, VenueNone, DescNone,
                     <<>>, FALSE, PageTwo),
      RawObservation("llm", TitleFilmX, TextWeekdayOct15, TextTime5pmET, VenueNone, DescLong,
                     <<>>, FALSE, PageOne),
      RawObservation("llm", TitleFilmX, TextOct15At7pm, <<>>, VenueUnknown, DescOther,
                     <<>>, FALSE, PageTwo),
      RawObservation("llm", <<>>, TextWeekdayOct15, TextTime5pmET, VenueNone, DescLong,
                     <<>>, FALSE, PageTwo),
      RawObservation("llm", TitleFilmX, TextTBA, <<>>, VenueNone, DescNone,
                     <<>>, FALSE, PageTwo),
      RawObservation("llm", TitleTwoWords, TextOct15, TextTime7pm, VenueMainHall, DescNone,
                     <<>>, FALSE, PageTwo),
      RawObservation("llm", TitleTwoWords, <<>>, TextTime7pm, VenueNone, DescShort,
                     <<>>, FALSE, PageTwo),
      RawObservation("llm", TitleFilmX, TextIso, <<>>, VenueNone, DescNone,
                     <<>>, FALSE, PageOne) }

BuildInit ==
    /\ event_registry = <<>>
    /\ processed_event_ids = {}
    /\ last = NoResult
    /\ registered = {}
    /\ calls = 0
    /\ BuildIdle
    /\ EnhIdle
    /\ PairIdle
    /\ RunIdle

\* one pass of a build loop (lines 244-264 or 554-591): the observation is
\* dropped, or its candidate is registered and, when new, joins the list
\* the page returns (events_out)
Observe(o) ==
    /\ nobs < MaxObs
    /\ obs' = o
    /\ nobs' = nobs + 1
    /\ \E c \in {Build(o)} :
          IF c = NoCandidate
            THEN UNCHANGED <<regVars, events_out>>
            ELSE \E r \in {RegisterEvent(event_registry, processed_event_ids, c)} :
                    /\ event_registry' = r.registry
                    /\ processed_event_ids' = r.ids
                    /\ last' = CallResult(event_registry, processed_event_ids, registered, c)
                    /\ registered' = registered \cup {c}
                    /\ calls' = calls + 1
                    /\ events_out' = IF r.is_new
                                       THEN Append(events_out, CreateEventId(c))
                                       ELSE events_out
    /\ UNCHANGED <<site, pc, runs, now, feed, result, handed, written,
                   prev_handed, prev_feed, page_modes>>
    /\ UNCHANGED <<pairVars, enhVars>>

\* a card of a page, in extract_events_from_page
ExtractCard(o) == o.path = "dom" /\ Observe(o)

\* a chunk of the text model's answer, in _parse_events_with_llm
ParseLlmChunk(o) == o.path = "llm" /\ Observe(o)

BuildNext ==
    \/ \E o \in RawObservations : ExtractCard(o)
    \/ \E o \in RawObservations : ParseLlmChunk(o)

SpecBuild == BuildInit /\ [][BuildNext]_vars

----------------------------------------------------------------------------
(* The run of src/enhanced_make_calendar.py: no registry, only           *)
(* processed_event_ids, and a second extraction of a page with Playwright *)

MaxEnhRuns == 2

\* "if len(events) < 3", line 487
PLAYWRIGHT_THRESHOLD == 3
\* "and i < 50", line 508
DETAIL_ENHANCEMENT_LIMIT == 50

\* _create_event_id of the enhanced scraper: title, start and venue verbatim
EnhCreateEventId(e) == <<e.title, e.start, e.venue>>

EnhCardA == Candidate(TitleFilmX,    StartEvening, VenueMainHall, DescShort, DetailUrl, PageOne)
EnhCardB == Candidate(TitleOther,    StartEvening, VenueMainHall, DescNone,  PageOne,   PageOne)
EnhCardC == Candidate(TitleTwoWords, StartLater,   VenueMainHall, DescNone,  PageOne,   PageOne)
EnhCardD == Candidate(TitleFilmX,    StartLater,   VenueAnnex,    DescOther, PageTwo,   PageTwo)
EnhCardE == Candidate(TitleOther,    StartEvening, VenueAnnex,    DescNone,  PageTwo,   PageTwo)

\* what a venue page shows to the static fetch and to the rendering fetch;
\* an empty list also stands for a fetch that failed (fetch_page_content
\* returns None and extract_events_from_page returns [])
EnhPage(static, rendered) == [static |-> static, rendered |-> rendered]

EnhPageOneContents ==
    { EnhPage(<<>>, <<EnhCardA, EnhCardB, EnhCardC>>),
      EnhPage(<<EnhCardA>>, <<EnhCardA, EnhCardB, EnhCardC>>),
      EnhPage(<<EnhCardA, EnhCardB>>, <<EnhCardA, EnhCardB>>),
      EnhPage(<<EnhCardA, EnhCardB, EnhCardC>>, <<EnhCardA, EnhCardB, EnhCardC>>),
      EnhPage(<<EnhCardA>>, <<>>) }

EnhPageTwoContents ==
    { EnhPage(<<>>, <<>>),
      EnhPage(<<EnhCardD>>, <<EnhCardD>>),
      EnhPage(<<>>, <<EnhCardD, EnhCardE>>) }

\* "event_id not in self.processed_event_ids", line 199
EnhIsNew(ids, id) == id \notin ids

\* the card loop of extract_events_from_page, lines 194-203
RECURSIVE EnhExtractEvents(_, _, _)
EnhExtractEvents(ids, cards, events) ==
    IF cards = <<>> THEN [ids |-> ids, events |-> events]
    ELSE IF EnhIsNew(ids, EnhCreateEventId(Head(cards)))
      THEN EnhExtractEvents(ids \cup {EnhCreateEventId(Head(cards))}, Tail(cards),
                            Append(events, Head(cards)))
      ELSE EnhExtractEvents(ids, Tail(cards), events)

\* the body of the page loop of scrape_all_events, lines 482-492: the static
\* extraction, and the extraction of the rendered page when the first gave
\* fewer than three events
EnhScrapePage(ids, page) ==
    TheOne({ IF Len(s.events) < PLAYWRIGHT_THRESHOLD
               THEN TheOne({ [ids    |-> p.ids,
                              events |-> IF Len(p.events) > Len(s.events)
                                           THEN p.events ELSE s.events] :
                             p \in {EnhExtractEvents(s.ids, page.rendered, <<>>)} })
               ELSE s :
             s \in {EnhExtractEvents(ids, page.static, <<>>)} })

\* enhance_event_with_detail_page of the enhanced scraper, lines 385-431
EnhEnhanceEvent(e, page) ==
    IF ~IsEligible(e) \/ ~page.ok THEN e
    ELSE [e EXCEPT
            !.description = IF page.desc # <<>> THEN page.desc ELSE @,
            !.venue = IF page.venue # <<>> THEN page.venue ELSE @]

\* lines 506-512; id is the identity the event was accepted under
EnhEnhanceAll(all, d) ==
    [i \in 1..Len(all) |->
        [id    |-> EnhCreateEventId(all[i]),
         event |-> IF IsEligible(all[i]) /\ i - 1 < DETAIL_ENHANCEMENT_LIMIT
                     THEN EnhEnhanceEvent(all[i], DetailFor(d, all[i].url))
                     ELSE all[i]]]

\* list.sort(key=start) of line 515: stable
RECURSIVE EnhInsertByStart(_, _)
EnhInsertByStart(sorted, x) ==
    IF sorted = <<>> THEN <<x>>
    ELSE IF sorted[Len(sorted)].event.start <= x.event.start THEN Append(sorted, x)
    ELSE Append(EnhInsertByStart(SubSeq(sorted, 1, Len(sorted) - 1), x), sorted[Len(sorted)])

RECURSIVE EnhSortByStart(_)
EnhSortByStart(all) ==
    IF all = <<>> THEN <<>>
    ELSE TheOne({ EnhInsertByStart(sorted, all[Len(all)]) :
                  sorted \in {EnhSortByStart(SubSeq(all, 1, Len(all) - 1))} })

\* generate_ics_calendar of the enhanced scraper: every dtstamp is now
EnhGenerateIcsCalendar(events, t) ==
    [i \in 1..Len(events) |-> Component(events[i].event, t)]

EnhOutIds == { enh_out[i].id : i \in 1..Len(enh_out) }

EnhInit ==
    /\ enh_site \in { <<p1, p2>> : p1 \in EnhPageOneContents, p2 \in EnhPageTwoContents }
    /\ enh_ids = {}
    /\ enh_all = <<>>
    /\ enh_page = 0
    /\ enh_pc = "idle"
    /\ enh_runs = 0
    /\ enh_out = <<>>
    /\ enh_result = FALSE
    /\ enh_feed = NoFeed
    /\ enh_accepted = {}
    /\ enh_first = {}
    /\ event_registry = <<>>
    /\ processed_event_ids = {}
    /\ last = NoResult
    /\ registered = {}
    /\ calls = 0
    /\ PairIdle
    /\ RunIdle
    /\ BuildIdle

\* run_scraping_job calls scrape_all_events, lines 468-476
EnhStartRun ==
    /\ enh_pc = "idle"
    /\ enh_runs < MaxEnhRuns
    /\ enh_runs' = enh_runs + 1
    /\ enh_all' = <<>>
    /\ enh_page' = 1
    /\ enh_accepted' = {}
    /\ enh_pc' = "pages"
    /\ UNCHANGED <<enh_site, enh_ids, enh_out, enh_result, enh_feed, enh_first>>
    /\ UNCHANGED <<regVars, pairVars, runVars, buildVars>>

\* one pass of the page loop
EnhScrapeNextPage ==
    /\ enh_pc = "pages"
    /\ enh_page <= Len(enh_site)
    /\ \E r \in {EnhScrapePage(enh_ids, enh_site[enh_page])} :
          /\ enh_ids' = r.ids
          /\ enh_all' = enh_all \o r.events
          /\ enh_accepted' = enh_accepted \cup (r.ids \ enh_ids)
    /\ enh_page' = enh_page + 1
    /\ UNCHANGED <<enh_site, enh_pc, enh_runs, enh_out, enh_result, enh_feed, enh_first>>
    /\ UNCHANGED <<regVars, pairVars, runVars, buildVars>>

\* the rest of scrape_all_events: detail pages, sort, return
EnhFinishScrape(d) ==
    /\ enh_pc = "pages"
    /\ enh_page > Len(enh_site)
    /\ \E out \in {EnhSortByStart(EnhEnhanceAll(enh_all, d))} :
          /\ enh_out' = out
          /\ enh_first' = IF enh_runs = 1
                            THEN { out[i].id : i \in 1..Len(out) }
                            ELSE enh_first
    /\ enh_pc' = "scraped"
    /\ UNCHANGED <<enh_site, enh_ids, enh_all, enh_page, enh_runs, enh_result,
                   enh_feed, enh_accepted>>
    /\ UNCHANGED <<regVars, pairVars, runVars, buildVars>>

\* run_scraping_job, lines 525-527
EnhReturnNoEvents ==
    /\ enh_pc = "scraped"
    /\ NoEvents(enh_out)
    /\ enh_result' = FALSE
    /\ enh_pc' = "idle"
    /\ UNCHANGED <<enh_site, enh_ids, enh_all, enh_page, enh_runs, enh_out,
                   enh_feed, enh_accepted, enh_first>>
    /\ UNCHANGED <<regVars, pairVars, runVars, buildVars>>

\* run_scraping_job, lines 529-537
EnhWriteFeed ==
    /\ enh_pc = "scraped"
    /\ ~NoEvents(enh_out)
    /\ enh_feed' = WrittenFile(enh_feed, EnhGenerateIcsCalendar(enh_out, enh_runs))
    /\ enh_result' = TRUE
    /\ enh_pc' = "idle"
    /\ UNCHANGED <<enh_site, enh_ids, enh_all, enh_page, enh_runs, enh_out,
                   enh_accepted, enh_first>>
    /\ UNCHANGED <<regVars, pairVars, runVars, buildVars>>

EnhNext ==
    \/ EnhStartRun
    \/ EnhScrapeNextPage
    \/ \E d \in DetailSites : EnhFinishScrape(d)
    \/ EnhReturnNoEvents
    \/ EnhWriteFeed

SpecEnh == EnhInit /\ [][EnhNext]_vars

----------------------------------------------------------------------------
(* Claims *)

KeysOf(cs) == { CreateEventId(c) : c \in cs }

\* C1: after any sequence of _register_event calls of one run the registry
\* holds exactly one record per identity key of the candidates registered so
\* far; a call returns is_new exactly when no earlier candidate had the key,
\* and otherwise adds no record and stores the merge of the old record and
\* the candidate.
C1_OneRecordPerKey ==
    /\ DOMAIN event_registry = KeysOf(registered)
    /\ processed_event_ids = KeysOf(registered)
    /\ calls > 0 =>
         LET id == CreateEventId(last.cand)
         IN  /\ last.is_new = (id \notin KeysOf(last.seen))
             /\ last.is_new => event_registry[id] = last.cand
             /\ ~last.is_new =>
                  /\ DOMAIN event_registry = DOMAIN last.before
                  /\ event_registry[id] = MergeEventRecords(last.before[id], last.cand).existing
                  /\ \A k \in DOMAIN event_registry \ {id} :
                        event_registry[k] = last.before[k]

\* a later candidate with an already registered key was merged
C1_Witness ==
    /\ calls = MaxCalls
    /\ ~last.is_new
    /\ last.changed
    /\ Cardinality(registered) > Cardinality(DOMAIN event_registry)
    /\ Cardinality(DOMAIN event_registry) > 1

StatusSet(title) ==
    { st \in {StandbyPrefix, TicketPrefix} :
        InSeq(st, SplitTitlePrefixes(title).statuses) }

\* C4: a status marker carried by a record's title is carried by it after
\* every later merge into that record.
C4_StatusMonotonic ==
    [][\A k \in DOMAIN event_registry :
          k \in DOMAIN event_registry' =>
            StatusSet(event_registry[k].title) \subseteq StatusSet(event_registry'[k].title)]_vars

\* a record with a marker took a merge from a candidate without that marker
C4_Witness ==
    /\ calls > 1
    /\ ~last.is_new
    /\ last.changed
    /\ LET id == CreateEventId(last.cand)
       IN  /\ StatusSet(last.before[id].title) \ StatusSet(last.cand.title) # {}
           /\ StatusSet(last.before[id].title) \subseteq StatusSet(event_registry[id].title)

\* the fields of two candidates do not tie: for each field one value
\* outranks the other under the merge rule, or the two are equal
NoTie(a, b) ==
    /\ \/ SplitTitlePrefixes(a.title).core = SplitTitlePrefixes(b.title).core
       \/ Len(SplitTitlePrefixes(a.title).core) # Len(SplitTitlePrefixes(b.title).core)
    /\ a.description = b.description \/ Len(a.description) # Len(b.description)
    /\ \/ a.venue = b.venue
       \/ a.venue \in VenuePlaceholders
       \/ b.venue \in VenuePlaceholders
    /\ \/ a.url = b.url
       \/ a.url = <<>>
       \/ b.url = <<>>
       \/ Contains(a.url, EventIdParam) # Contains(b.url, EventIdParam)
    /\ a.source_url = b.source_url \/ a.source_url = <<>> \/ b.source_url = <<>>

\* C2 as claimed: registering A then B gives the same record as B then A
C2_Commutative ==
    (pairPc = 2 /\ SameKey(candA, candB)) => event_registry = registry_rev

\* C2 amended: the two orders give the same record when no field ties
C2_CommutativeNoTie ==
    (pairPc = 2 /\ SameKey(candA, candB) /\ NoTie(candA, candB))
        => event_registry = registry_rev

\* two different candidates without a tie were merged in both orders
C2_Witness ==
    /\ pairPc = 2
    /\ SameKey(candA, candB)
    /\ NoTie(candA, candB)
    /\ candA.title # candB.title
    /\ candA.description # candB.description
    /\ candA.venue # candB.venue
    /\ candA.url # candB.url
    /\ last.changed
    /\ event_registry = registry_rev

\* C3 as claimed: registering an identical copy returns is_new = false and
\* changed = false and leaves the stored record equal to the candidate
C3_Idempotent ==
    (pairPc = 2 /\ candA = candB) =>
        /\ ~last.is_new
        /\ ~last.changed
        /\ event_registry[CreateEventId(candA)] = candA

FilmXObservation(c) ==
    /\ c.title = TitleFilmX
    /\ c.start = StartEvening
    /\ c.venue = VenueNone

TicketedObservation(c) ==
    /\ c.title = TitleTicketFilmX
    /\ c.start = StartEvening
    /\ c.venue = VenueMainHall
    /\ c.description = DescShort

\* C5 as claimed: the two observations end up as one record with the venue,
\* the ticketed title and the description of the second
C5_ScenarioMerged ==
    (pairPc = 2 /\ FilmXObservation(candA) /\ TicketedObservation(candB)) =>
        /\ Cardinality(DOMAIN event_registry) = 1
        /\ \A k \in DOMAIN event_registry :
              /\ event_registry[k].venue = VenueMainHall
              /\ event_registry[k].title = TitleTicketFilmX
              /\ event_registry[k].description = DescShort

----------------------------------------------------------------------------
(* Claims about the feed and the run *)

\* the last run wrote the feed: feed.entries is what it wrote, prev_feed the
\* file it found, now its clock
JustWritten == pc = "idle" /\ result

\* the entries of the file f with the identifier and the signature of c
Counterparts(f, c) ==
    { j \in 1..Len(f.entries) :
        /\ f.entries[j].uid = c.uid
        /\ EventSignatureFromComponent(f.entries[j]) = EventSignatureFromComponent(c) }

\* C6: every entry of a new feed carries the timestamp of the entry of the
\* (readable) previous feed with the same identifier and an equal content
\* signature when there is one, and the time of the run otherwise.
C6_StampReuse ==
    (JustWritten /\ prev_feed.failAt = NoFail) =>
        \A i \in 1..Len(feed.entries) :
            LET c == feed.entries[i]
            IN  IF Counterparts(prev_feed, c) # {}
                  THEN \E j \in Counterparts(prev_feed, c) :
                          c.dtstamp = prev_feed.entries[j].dtstamp
                  ELSE c.dtstamp = now

\* C7: a run over the same final records as the run that wrote the file now at
\* OUTPUT_PATH gives every entry the timestamp it has in that file.
C7_RoundTrip ==
    (JustWritten /\ prev_feed.exists /\ prev_feed.failAt = NoFail /\ prev_handed = handed) =>
        \A i \in 1..Len(feed.entries) :
            feed.entries[i].dtstamp = prev_feed.entries[i].dtstamp

\* the character order of the case-insensitive title comparison
CharRank(c) ==
    CASE c = " " -> 0
      [] c = "#" -> 1
      [] c = "a" -> 2
      [] c = "b" -> 3
      [] c = "d" -> 4
      [] c = "m" -> 5
      [] c = "s" -> 6
      [] c = "t" -> 7
      [] c = "v" -> 8
      [] OTHER   -> 9

RECURSIVE LexLeq(_, _)
LexLeq(a, b) ==
    IF a = <<>> THEN TRUE
    ELSE IF b = <<>> THEN FALSE
    ELSE IF CharRank(Head(a)) # CharRank(Head(b)) THEN CharRank(Head(a)) < CharRank(Head(b))
    ELSE LexLeq(Tail(a), Tail(b))

\* C8: the records handed to the feed writer are in ascending order of start,
\* and records with equal start are in case-insensitive order of title.
C8_SortedWithTitleTieBreak ==
    \A i, j \in 1..Len(handed) :
        i < j =>
            \/ handed[i].start < handed[j].start
            \/ /\ handed[i].start = handed[j].start
               /\ LexLeq(Lower(handed[i].title), Lower(handed[j].title))

\* C9: a run that ends with no records returns False and leaves the file at
\* OUTPUT_PATH as it was, and no step leaves a feed without entries there.
C9_NoEmptyOverwrite ==
    [][ /\ (pc = "scraped" /\ handed = <<>>) => (result' = FALSE /\ feed' = feed)
        /\ feed'.exists => feed'.entries # <<>> ]_vars

\* a run that ended with no records found a published feed and left it
C9_Witness ==
    /\ pc = "idle"
    /\ runs = 2
    /\ handed = <<>>
    /\ result = FALSE
    /\ feed.exists
    /\ feed = prev_feed

\* C10: when reading the previous feed fails, every entry of the new feed
\* carries the time of the run.
C10_UnreadableFeedIgnored ==
    (JustWritten /\ prev_feed.exists /\ prev_feed.failAt # NoFail) =>
        \A i \in 1..Len(feed.entries) : feed.entries[i].dtstamp = now

----------------------------------------------------------------------------
(* Claims about building candidates *)

\* the date text handed to _parse_datetime for a raw observation
DateTextOf(o) ==
    IF o.path = "dom" THEN Strip(o.date)
    ELSE CombinedDatetime(Strip(o.date), Strip(o.time))

Dropped(o) == Strip(o.title) = <<>> \/ ParseDatetime(DateTextOf(o)) = NoDate

\* C11: a raw observation with an empty title or with a date text that no
\* pattern parses causes no _register_event call and changes neither the
\* registry nor the list the page returns, on the DOM and the text-model path.
C11_DroppedAtBuild ==
    [][ (nobs' # nobs /\ Dropped(obs')) =>
            /\ calls' = calls
            /\ registered' = registered
            /\ event_registry' = event_registry
            /\ events_out' = events_out ]_vars

\* a text-model chunk with the date 'TBA' was dropped after a card was registered
C11_Witness ==
    /\ nobs = 2
    /\ calls = 1
    /\ obs.path = "llm"
    /\ obs.title # <<>>
    /\ obs.date = TextTBA
    /\ Len(events_out) = 1

----------------------------------------------------------------------------
(* Claims about the run over several sources *)

\* the identity keys of the records in the list scrape_all_events returned
OutputKeys == { events_out[i] : i \in 1..Len(events_out) }

SomePageFailed == \E j \in 1..Len(page_modes) : page_modes[j] # "ok"

\* C12: when a page fails, the run still processes the other pages and the
\* custom events, and the records of every page that did not fail and of the
\* custom events are in the returned list.
C12_FailureIsolated ==
    (pc = "scraped" /\ SomePageFailed) =>
        /\ \A k \in 1..Len(CustomEvents) :
              /\ CreateEventId(CustomEvents[k]) \in DOMAIN event_registry
              /\ CreateEventId(CustomEvents[k]) \in OutputKeys
        /\ \A i \in 1..Len(site) :
              page_modes[i] = "ok" =>
                  \A k \in 1..Len(site[i]) : CreateEventId(site[i][k]) \in OutputKeys

BaseTitle(e) == SplitTitlePrefixes(e.title).core

\* C13: a record of this run and a record of the run that wrote the previous
\* feed with equal base title, start and venue have the same identifier,
\* whatever status markers their titles carry.
C13_UidIgnoresMarkers ==
    JustWritten =>
        \A i \in 1..Len(handed), j \in 1..Len(prev_handed) :
            ( /\ BaseTitle(handed[i]) = BaseTitle(prev_handed[j])
              /\ handed[i].start = prev_handed[j].start
              /\ handed[i].venue = prev_handed[j].venue )
                => GenerateUid(handed[i]) = GenerateUid(prev_handed[j])

\* C14: two candidates with one identity key registered in either order
\* leave a record with the same identifier.
C14_UidOrderIndependent ==
    (pairPc = 2 /\ SameKey(candA, candB)) =>
        \A k \in DOMAIN event_registry :
            GenerateUid(event_registry[k]) = GenerateUid(registry_rev[k])

\* C15: when the record has a non-empty venue and a candidate with the same
\* identity key brings another non-empty venue, the record keeps its venue.
C15_VenueFirstWriterWins ==
    ( /\ pairPc = 2
      /\ SameKey(candA, candB)
      /\ candA.venue # <<>>
      /\ candB.venue # <<>>
      /\ candA.venue # candB.venue )
        => event_registry[CreateEventId(candA)].venue = candA.venue

\* the placeholder venues as they appear in an identity key
PlaceholderKeys == { Lower(Strip(v)) : v \in VenuePlaceholders \ {<<>>} }

\* C16: no identity key of the registry holds a placeholder venue, and no
\* record of the registry has one.
C16_NoPlaceholderVenue ==
    \A k \in DOMAIN event_registry :
        /\ k[3] \notin PlaceholderKeys
        /\ event_registry[k].venue \notin VenuePlaceholders \ {<<>>}

\* the record stored under the key of the last candidate before the call
RecordBefore == last.before[CreateEventId(last.cand)]

\* no field of record b is less complete than the same field of record a
NotLessComplete(a, b) ==
    /\ Len(BaseTitle(b)) >= Len(BaseTitle(a))
    /\ Len(b.description) >= Len(a.description)
    /\ (a.venue # <<>> => b.venue # <<>>)
    /\ (a.url # <<>> => b.url # <<>>)
    /\ (a.source_url # <<>> => b.source_url # <<>>)

\* C17: a call of _register_event never makes a field of a record of the
\* registry less complete: base title and description do not get shorter,
\* and a non-empty venue, url or source_url does not become empty.
C17_MergeMonotonic ==
    [][\A k \in DOMAIN event_registry :
          /\ k \in DOMAIN event_registry'
          /\ NotLessComplete(event_registry[k], event_registry'[k])]_vars

\* a merge met a shorter non-empty description than the stored one, and a
\* different url where the record had one, and the record kept its own
C17_Witness ==
    /\ ~last.is_new
    /\ last.cand.description # <<>>
    /\ Len(last.cand.description) < Len(RecordBefore.description)
    /\ last.cand.url # RecordBefore.url
    /\ last.stored.description = RecordBefore.description
    /\ last.stored.url = RecordBefore.url

\* what scrape_all_events leaves on an instance that never ran before
FreshRun(d) == ScrapeAllEvents(<<>>, {}, site, page_modes, d)

\* C18: what a call of scrape_all_events leaves (the registry, the ids, and
\* the list of the records that were new) is what a scraper that never ran
\* before leaves on the same pages: earlier runs of the instance do not count.
C18_RunScoped ==
    pc = "scraped" =>
        \E d \in DetailSites :
            \E r \in {FreshRun(d)} :
                /\ event_registry = r.registry
                /\ processed_event_ids = r.ids
                /\ events_out = r.events

\* a second run of the instance has returned, as new, a record whose key the
\* run before had registered and written
C18_Witness ==
    /\ pc = "scraped"
    /\ runs = 2
    /\ \E i \in 1..Len(written) : \E j \in 1..Len(events_out) :
           CreateEventId(written[i]) = events_out[j]

\* the identifiers of the entries of the file f
UidsOf(f) == { f.entries[i].uid : i \in 1..Len(f.entries) }

\* the record of the run at position i of the returned list
RecordAt(i) == event_registry[events_out[i]]

\* C19: after a run that wrote the feed, the feed has one entry per record of
\* the list the run returned, in the order of that list, each made of that
\* record's fields; so no entry of the file found before is carried over.
C19_FeedReplaced ==
    JustWritten =>
        /\ Len(feed.entries) = Len(events_out)
        /\ \A i \in 1..Len(events_out) :
               /\ feed.entries[i].uid = GenerateUid(RecordAt(i))
               /\ feed.entries[i].summary = RecordAt(i).title
               /\ feed.entries[i].dtstart = RecordAt(i).start
        /\ \A u \in UidsOf(prev_feed) :
               u \notin { GenerateUid(RecordAt(i)) : i \in 1..Len(events_out) }
                   => u \notin UidsOf(feed)

\* a run wrote the feed over a file holding an entry whose identifier no
\* record of the run has
C19_Witness ==
    /\ JustWritten
    /\ prev_feed.exists
    /\ \E u \in UidsOf(prev_feed) :
           u \notin { GenerateUid(RecordAt(i)) : i \in 1..Len(events_out) }

----------------------------------------------------------------------------
(* Claims about _parse_datetime *)

\* 2025-10-15T17:00:00
Oct15At5pm ==
    [year |-> 2025, month |-> 10, day |-> 15, hour |-> 17, minute |-> 0, second |-> 0]

\* 'Wednesday, Oct 15 at 5:00 PM'
TextWeekdayAt5pmNoTz == SubSeq(TextWeekdayAt5pm, 1, Len(TextWeekdayAt5pm) - 3)

\* a card with a title and the date text 'Wednesday, Oct 15 at 5:00 PM ET'
\* has just been handled
WeekdayAtCardSeen ==
    /\ nobs > 0
    /\ obs.path = "dom"
    /\ Strip(obs.title) # <<>>
    /\ obs.date = TextWeekdayAt5pm

\* C20: with YEAR 2025, _parse_datetime('Wednesday, Oct 15 at 5:00 PM ET') is
\* 2025-10-15T17:00:00: the cleanup strips the trailing ' ET', the
\* weekday-prefixed 'at' pattern matches, and the candidate built from a card
\* with that date text is registered with that start.
C20_WeekdayAtParsed ==
    WeekdayAtCardSeen =>
        /\ YEAR = 2025
        /\ CleanDateText(obs.date) = TextWeekdayAt5pmNoTz
        /\ Search(patterns[1], CleanDateText(obs.date)).ok
        /\ ParseDatetime(obs.date) = Oct15At5pm
        /\ last.cand.start = Timestamp(Oct15At5pm)
        /\ last.cand \in registered

\* the card with that date text was registered as a new record starting at
\* 17:00 on October 15
C20_Witness ==
    /\ WeekdayAtCardSeen
    /\ last.is_new
    /\ last.stored.start = 17 * 60
    /\ CreateEventId(last.cand) \in DOMAIN event_registry

\* the digit character of a value 0..9
DigitChar(d) == CHOOSE c \in Digits : DigitVal(c) = d

TwoDigits(n) == <<DigitChar(n \div 10), DigitChar(n % 10)>>

\* datetime.isoformat(): 'YYYY-MM-DDTHH:MM:SS'
IsoFormat(dt) ==
    TwoDigits(dt.year \div 100) \o TwoDigits(dt.year % 100) \o <<"-">>
        \o TwoDigits(dt.month) \o <<"-">> \o TwoDigits(dt.day) \o <<"T">>
        \o TwoDigits(dt.hour) \o <<":">> \o TwoDigits(dt.minute) \o <<":">>
        \o TwoDigits(dt.second)

\* the timestamp _parse_datetime made of the last raw observation
ParsedOfObs == ParseDatetime(DateTextOf(obs))

\* C21: when _parse_datetime accepted the date text of an observation, the
\* standard text form of the timestamp it returned is accepted again and
\* gives the same timestamp.
C21_NormalizeIdempotent ==
    (nobs > 0 /\ ParsedOfObs # NoDate) =>
        ParseDatetime(IsoFormat(ParsedOfObs)) = ParsedOfObs

----------------------------------------------------------------------------
(* Claims about one call of _register_event *)

\* C22: a duplicate registration returns changed = true exactly when the
\* stored record differs from what it was before the call; a first
\* registration stores the candidate verbatim and returns changed = false.
C22_ChangedIffDiffers ==
    calls > 0 =>
        /\ event_registry[CreateEventId(last.cand)] = last.stored
        /\ IF last.is_new
              THEN last.stored = last.cand /\ ~last.changed
              ELSE last.changed <=> (last.stored # RecordBefore)

\* a duplicate that differed from the stored record left it as it was and
\* returned changed = false
C22_Witness ==
    /\ calls > 0
    /\ ~last.is_new
    /\ ~last.changed
    /\ last.cand # RecordBefore
    /\ last.stored = RecordBefore

\* C23: after a merge the description of the record is the candidate's when
\* that is strictly longer than the one stored before, and the one stored
\* before otherwise, also when both have the same length.
C23_DescriptionStrictlyLonger ==
    (calls > 0 /\ ~last.is_new) =>
        last.stored.description =
            IF Len(last.cand.description) > Len(RecordBefore.description)
              THEN last.cand.description
              ELSE RecordBefore.description

\* a merge met a different description of the same length and kept its own
C23_Witness ==
    /\ calls > 0
    /\ ~last.is_new
    /\ last.cand.description # RecordBefore.description
    /\ Len(last.cand.description) = Len(RecordBefore.description)
    /\ last.stored.description = RecordBefore.description

HasEventId(url) == Contains(url, EventIdParam)

\* C24: after a merge the url of the record is the candidate's non-empty url
\* when the url stored before was empty, or had no 'eventId=' while the
\* candidate's has one, and the url stored before otherwise; so a stored
\* url with 'eventId=' is never replaced.
C24_UrlPreference ==
    (calls > 0 /\ ~last.is_new) =>
        /\ last.stored.url =
              IF /\ last.cand.url # <<>>
                 /\ \/ RecordBefore.url = <<>>
                    \/ HasEventId(last.cand.url) /\ ~HasEventId(RecordBefore.url)
                THEN last.cand.url
                ELSE RecordBefore.url
        /\ (HasEventId(RecordBefore.url) => last.stored.url = RecordBefore.url)

\* a record whose url has 'eventId=' met a candidate with another url with
\* 'eventId=' and kept its own
C24_Witness ==
    /\ calls > 0
    /\ ~last.is_new
    /\ HasEventId(RecordBefore.url)
    /\ HasEventId(last.cand.url)
    /\ last.cand.url # RecordBefore.url
    /\ last.stored.url = RecordBefore.url

\* C25: a call of _register_event that merges (is_new = false) leaves the
\* candidate as it was handed in, leaves the start of the record it merges
\* into, and leaves every record under another identity key as it was.
C25_MergeFrame ==
    (calls > 0 /\ ~last.is_new) =>
        /\ last.cand_after = last.cand
        /\ last.stored.start = RecordBefore.start
        /\ DOMAIN event_registry = DOMAIN last.before
        /\ \A k \in DOMAIN last.before \ {CreateEventId(last.cand)} :
               event_registry[k] = last.before[k]

\* a merge changed its record while the registry held a record under
\* another identity key
C25_Witness ==
    /\ calls > 0
    /\ ~last.is_new
    /\ last.changed
    /\ DOMAIN last.before # {CreateEventId(last.cand)}

\* C26: every record of the registry is stored under the identity key that
\* _create_event_id gives for its current title, start and venue.
C26_KeyConsistent ==
    \A k \in DOMAIN event_registry : CreateEventId(event_registry[k]) = k

\* a merge gave its record another title, and the record is still under
\* the key of that title
C26_Witness ==
    /\ calls > 0
    /\ ~last.is_new
    /\ last.stored.title # RecordBefore.title
    /\ CreateEventId(last.stored) = CreateEventId(last.cand)
    /\ event_registry[CreateEventId(last.cand)] = last.stored

\* C27: when a call merged a candidate into a record and the next call
\* registers the same candidate again, the second call changes no field of
\* the record and returns changed = false.
C27_MergeStabilises ==
    [][ (calls' = calls + 1 /\ calls > 0 /\ ~last.is_new /\ last'.cand = last.cand) =>
            /\ ~last'.is_new
            /\ ~last'.changed
            /\ last'.stored = last.stored
            /\ event_registry' = event_registry ]_vars

\* a candidate registered before was merged again, into a record that the
\* run's merges had changed and that differs from it, and nothing changed
C27_Witness ==
    /\ calls = 3
    /\ ~last.is_new
    /\ ~last.changed
    /\ last.cand \in last.seen
    /\ Cardinality(last.seen) = 2
    /\ RecordBefore \notin last.seen
    /\ last.stored = RecordBefore

----------------------------------------------------------------------------
(* Claims about the list scrape_all_events returns *)

\* C28: when scrape_all_events has returned, its list holds every key of the
\* registry exactly once and nothing else, also when a page raised.
C28_ListIsRegistry ==
    pc = "scraped" =>
        /\ OutputKeys = DOMAIN event_registry
        /\ \A i, j \in 1..Len(events_out) : events_out[i] = events_out[j] => i = j

----------------------------------------------------------------------------
(* Claims about the enhanced scraper *)

\* C29: when scrape_all_events of the enhanced scraper has returned, every
\* event whose id the run added to processed_event_ids is in the list.
C29_AcceptedIsReturned ==
    enh_pc = "scraped" => enh_accepted \subseteq EnhOutIds

\* the run that just finished was a later run of the instance
LaterRunDone == enh_pc = "idle" /\ enh_runs >= 2

\* C30: a later run of the same instance over the same pages returns the
\* events the first run returned, and succeeds when the first run returned any.
C30_LaterRunSame ==
    LaterRunDone =>
        /\ EnhOutIds = enh_first
        /\ (enh_first # {} => enh_result)

====
